---------------------------- MODULE Spec2Model ----------------------------
(***************************************************************************)
(* A model of ingest.py: the event harvester that reads calendar feeds,    *)
(* syndication feeds and web pages, normalises every entry into one record *)
(* and posts it to a webhook with throttling, retries and a per-source cap.*)
(*                                                                         *)
(* Strings are tuples of one-character strings, so that strip, lower and   *)
(* substring tests are computed the way the Python code computes them.     *)
(* An optional value is a tuple of length 0 (None) or 1 (the value).       *)
(***************************************************************************)
EXTENDS Integers, Sequences, FiniteSets, TLC

---------------------------------------------------------------------------
(* Python values *)

None == <<>>

Some(v) == <<v>>

\* Python truthiness of an optional string: None and "" are falsy.
Truthy(o) == o # None /\ o[1] # <<>>

\* Python `a or b`.
Or(a, b) == IF Truthy(a) THEN a ELSE b

\* Python `(s or "")` as a plain string.
StrOr(o) == IF Truthy(o) THEN o[1] ELSE <<>>

UPPER == <<"A","B","C","D","E","F","G","H","I","J","K","L","M","N","O","P","Q","R","S","T","U","V","W","X","Y","Z">>

LOWER == <<"a","b","c","d","e","f","g","h","i","j","k","l","m","n","o","p","q","r","s","t","u","v","w","x","y","z">>

DIGITS == <<"0","1","2","3","4","5","6","7","8","9">>

lower_char(c) ==
  IF \E i \in 1..26 : UPPER[i] = c
  THEN LOWER[CHOOSE i \in 1..26 : UPPER[i] = c]
  ELSE c

\* str.lower()
lower(s) == [i \in 1..Len(s) |-> lower_char(s[i])]

IsSpace(c) == c \in {" ", "\t", "\n"}

RECURSIVE lstrip(_)
lstrip(s) == IF s # <<>> /\ IsSpace(Head(s)) THEN lstrip(Tail(s)) ELSE s

RECURSIVE rstrip(_)
rstrip(s) ==
  IF s # <<>> /\ IsSpace(s[Len(s)]) THEN rstrip(SubSeq(s, 1, Len(s) - 1)) ELSE s

\* str.strip()
strip(s) == rstrip(lstrip(s))

\* `sub in s`
Contains(sub, s) ==
  \E i \in 0..(Len(s) - Len(sub)) : SubSeq(s, i + 1, i + Len(sub)) = sub

\* re.sub(r"\s+", " ", s): every run of whitespace becomes one blank.
RECURSIVE collapse_ws(_)
collapse_ws(s) ==
  IF s = <<>> THEN <<>>
  ELSE IF IsSpace(Head(s))
       THEN <<" ">> \o collapse_ws(lstrip(s))
       ELSE <<Head(s)>> \o collapse_ws(Tail(s))

\* urlparse(href).path for the URL shapes of the model: "http://host/path"
\* or a bare path (no query, no fragment).
urlparse_path(u) ==
  IF Len(u) >= 7 /\ SubSeq(u, 1, 7) = <<"h","t","t","p",":","/","/">>
  THEN LET r == SubSeq(u, 8, Len(u))
           slashes == {i \in 1..Len(r) : r[i] = "/"}
       IN IF slashes = {} THEN <<>>
          ELSE SubSeq(r, CHOOSE i \in slashes : \A j \in slashes : i <= j, Len(r))
  ELSE u

---------------------------------------------------------------------------
(* Config (ingest.py lines 12-28) *)

\* America/Denver; every instant of the model lies in standard time (UTC-7).
TZ_OFFSET == -7

\* Hard cap per source per run.  The program sets 60; the model runs the
\* same loop with a cap of 2 so that a batch can exceed it.
MAX_POSTS_PER_SOURCE == 2

\* A schedule one entry short.
RETRY_BACKOFFS_short == <<1, 2>>

\* Seconds to wait on 429/5xx: one retry per entry.
RETRY_BACKOFFS == <<1, 2, 4>>

STOPWORD_TITLES ==
  { <<"d","e","t","a","i","l","s">>, <<"m","o","r","e"," ","i","n","f","o">>, <<"e","v","e","n","t"," ","c","a","l","e","n","d","a","r">>, <<"s","u","b","m","i","t"," ","a","n"," ","e","v","e","n","t">>,
    <<"s","u","b","m","i","t"," ","e","v","e","n","t">>, <<"u","p","d","a","t","e"," ","y","o","u","r"," ","l","i","s","t","i","n","g">>, <<"l","i","n","k"," ","t","o"," ","o","u","r"," ","w","e","b","s","i","t","e">>,
    <<"e","v","e","n","t","s">>, <<"m","a","j","o","r"," ","s","p","o","r","t","s"," ","a","n","d"," ","e","v","e","n","t","s">> }

MIN_TITLE_LEN == 6

---------------------------------------------------------------------------
(* Utilities (ingest.py lines 30-75) *)

\* A start value is [kind, h, off]:
\*   kind = "none"   no start value (None)
\*   kind = "bad"    a string the date parser rejects
\*   kind = "aware"  wall-clock hour h (hours since 2024-01-01T00:00, a
\*                   Monday) at UTC offset off
NoStart == [kind |-> "none", h |-> 0, off |-> 0]

BadStart == [kind |-> "bad", h |-> 0, off |-> 0]

Aware(h, off) == [kind |-> "aware", h |-> h, off |-> off]

TwoDigits(n) == <<DIGITS[(n \div 10) + 1], DIGITS[(n % 10) + 1]>>

\* date.isoformat() of day number d (0 = 2024-01-01), for December 2023 and
\* January 2024.
isoformat(d) ==
  IF d >= 0 THEN <<"2","0","2","4","-","0","1","-">> \o TwoDigits(d + 1)
  ELSE <<"2","0","2","3","-","1","2","-">> \o TwoDigits(32 + d)

DigitVal(c) == (CHOOSE i \in 1..10 : DIGITS[i] = c) - 1

\* dateutil's parse of an ISO date string back to a day number.
parse_isodate(s) ==
  LET dd == DigitVal(s[9]) * 10 + DigitVal(s[10])
  IN IF SubSeq(s, 1, 8) = <<"2","0","2","4","-","0","1","-">> THEN dd - 1 ELSE dd - 32

\* .astimezone(TZ): the wall-clock hour in America/Denver.
astimezone(d) == d.h - d.off + TZ_OFFSET

iso_date(d) ==
  IF d.kind = "none" THEN None
  ELSE IF d.kind = "bad" THEN None
  ELSE Some(isoformat(astimezone(d) \div 24))

\* strftime("%-I:%M %p") of an hour of the day (the model's instants are on
\* the hour).
strftime_IMp(hour) ==
  LET h12 == IF hour % 12 = 0 THEN 12 ELSE hour % 12
      digits == IF h12 >= 10 THEN TwoDigits(h12) ELSE <<DIGITS[h12 + 1]>>
  IN digits \o <<":","0","0"," ">> \o (IF hour < 12 THEN <<"A","M">> ELSE <<"P","M">>)

iso_time(d) ==
  IF d.kind = "none" THEN None
  ELSE IF d.kind = "bad" THEN None
  ELSE Some(strftime_IMp(astimezone(d) % 24))

DAY_NAMES ==
  << <<"M","o","n","d","a","y">>, <<"T","u","e","s","d","a","y">>, <<"W","e","d","n","e","s","d","a","y">>, <<"T","h","u","r","s","d","a","y">>, <<"F","r","i","d","a","y">>,
     <<"S","a","t","u","r","d","a","y">>, <<"S","u","n","d","a","y">> >>

\* strftime("%A") of a day number (day 0 is a Monday).
strftime_A(daynum) == DAY_NAMES[(daynum % 7) + 1]

\* dp.parse(str(d)).date().strftime("%A"): the date of the parsed value in
\* its own offset, with no conversion to TZ.  str(None) does not parse.
weekday_name(d) ==
  IF d.kind = "aware" THEN Some(strftime_A(d.h \div 24)) ELSE None

\* dp.parse of the ISO date string that iso_date returned: midnight of that
\* day, as ingest_page hands it to weekday_name.
dp_parse_date(s) == Aware(24 * parse_isodate(s), 0)

\* The hex digest, modelled as an injective image of the hashed string.
sha1_hexdigest(s) == <<"s","h","a","1","(">> \o s \o <<")">>

\* sha1_id(*parts) for two and three parts: "||".join(p or "" for p in parts).
sha1_id2(p1, p2) == sha1_hexdigest(StrOr(p1) \o <<"|","|">> \o StrOr(p2))

sha1_id3(p1, p2, p3) ==
  sha1_hexdigest(StrOr(p1) \o <<"|","|">> \o StrOr(p2) \o <<"|","|">> \o StrOr(p3))

NAV_FRAGMENTS == { <<"d","e","t","a","i","l","s">>, <<"m","o","r","e"," ","i","n","f","o">>, <<"s","u","b","m","i","t">>, <<"u","p","d","a","t","e">>, <<"c","a","l","e","n","d","a","r">> }

ALLOW_FRAGMENTS ==
  { <<"/","e","v","e","n","t">>, <<"/","e","v","e","n","t","s">>, <<"/","w","h","a","t","s","-","h","a","p","p","e","n","i","n","g">>, <<"/","w","h","a","t","s","o","n">>, <<"/","c","a","l","e","n","d","a","r">>,
    <<"/","s","h","o","w","s">>, <<"/","p","e","r","f","o","r","m","a","n","c","e","s">> }

is_event_like(title, href) ==
  LET t == strip(StrOr(title))
      lt == lower(t)
      path == lower(urlparse_path(StrOr(href)))
  IN IF t = <<>> \/ Len(t) < MIN_TITLE_LEN THEN FALSE
     ELSE IF lt \in STOPWORD_TITLES THEN FALSE
     ELSE IF \E sw \in NAV_FRAGMENTS : Contains(sw, lt) THEN FALSE
     ELSE IF \E seg \in ALLOW_FRAGMENTS : Contains(seg, path) THEN TRUE
     ELSE Len(t) >= 15

safe_title(s) == collapse_ws(strip(StrOr(s)))

---------------------------------------------------------------------------
(* Bounds of the model *)

\* Rows of sources.csv.
MaxRows == 2

\* Entries a feed or page yields beyond MAX_POSTS_PER_SOURCE.
MaxExtra == 1

\* Responses the sink has scripted for one delivery (PostSpec).
ScriptLen == 4

MaxCands == MAX_POSTS_PER_SOURCE + MaxExtra

---------------------------------------------------------------------------
(* Inputs: what the producers hand to the loops *)

\* A raw location: absent, a plain string, or a schema.org Place dict.
NoLoc ==
  [kind |-> "none", text |-> <<>>, name |-> None, street |-> None,
   locality |-> None, region |-> None]

StrLoc(s) == [NoLoc EXCEPT !.kind = "str", !.text = s]

Place(name, street, locality, region) ==
  [kind |-> "place", text |-> <<>>, name |-> name, street |-> street,
   locality |-> locality, region |-> region]

\* One raw entry: a calendar event (name, begin, location, url, uid), a
\* feed entry (title, published, link, id) or a structured block / card
\* (name, startDate, location, url, @id or identifier).
Raw(name, start, location, url, id) ==
  [name |-> name, start |-> start, location |-> location, url |-> url,
   id |-> id]

ICS_URL == <<"h","t","t","p",":","/","/","h","/","c","a","l",".","i","c","s">>

RSS_URL == <<"h","t","t","p",":","/","/","h","/","f","e","e","d">>

PAGE_URL == <<"h","t","t","p",":","/","/","h","/","e","v","e","n","t","s">>

SourceName(k) ==
  IF k = "ics" THEN <<"L","i","b","r","a","r","y">> ELSE IF k = "rss" THEN <<"M","u","s","e","u","m">> ELSE <<"T","h","e","a","t","r","e">>

\* default_location of a row: blank, or a venue.
DefaultLocations == { <<>>, <<"H","e","l","e","n","a">> }

T_FEST == <<"W","i","n","t","e","r"," ","J","a","z","z"," ","F","e","s","t","i","v","a","l">>

T_WALK == <<"A","r","t"," ","W","a","l","k">>

\* Monday 2024-01-01 02:00 UTC: still Sunday 2023-12-31 in Denver.
START_UTC == Aware(2, 0)

\* Tuesday 2024-01-02 19:00 at UTC-7.
START_LOCAL == Aware(43, -7)

\* Calendar entries: (e.name, e.begin, e.location, e.url, e.uid).
IcsEntries ==
  { Raw(Some(T_FEST), START_UTC, StrLoc(<<"C","i","t","y"," ","H","a","l","l">>), None, Some(<<"u","i","d","-","1">>)),
    Raw(Some(T_WALK), START_LOCAL, NoLoc, Some(<<"/","e","v","e","n","t","s","/","2">>), None),
    Raw(None, NoStart, NoLoc, None, None) }

\* Feed entries: (title, published or updated, -, link, id).
RssEntries ==
  { Raw(Some(T_FEST), START_UTC, NoLoc, Some(<<"/","n","e","w","s","/","1">>), Some(<<"g","u","i","d","-","1">>)),
    Raw(Some(T_WALK), START_LOCAL, NoLoc, Some(<<"/","e","v","e","n","t","s","/","2">>), None),
    Raw(Some(<<"W","i","n","t","e","r"," ","G","a","l","a"," ","D","i","n","n","e","r","!">>), BadStart, NoLoc, Some(<<"/","a","b","o","u","t">>), None),
    Raw(Some(<<"D","e","t","a","i","l","s">>), NoStart, NoLoc, Some(<<"/","e","v","e","n","t","s","/","3">>), None) }

\* Structured blocks of a page (JSON-LD, microdata, RDFa all project to this).
StructuredBlocks ==
  { Raw(Some(T_FEST), START_UTC,
        Place(Some(<<"C","i","v","i","c"," ","C","e","n","t","e","r">>), Some(<<"3","4","0"," ","N","e","i","l","l"," ","A","v","e">>), Some(<<"H","e","l","e","n","a">>), None),
        Some(<<"/","e","v","e","n","t","s","/","1">>), None),
    Raw(Some(T_FEST), START_UTC, StrLoc(<<"C","i","t","y"," ","H","a","l","l">>), Some(<<"/","e","v","e","n","t","s","/","2">>), None),
    Raw(Some(T_FEST), NoStart, NoLoc, None, None),
    Raw(Some(<<" ","w","i","n","t","e","r"," "," ","j","a","z","z"," ","F","E","S","T","I","V","A","L"," ">>), NoStart, NoLoc, Some(PAGE_URL), None),
    Raw(Some(T_WALK), BadStart, Place(None, None, None, None),
        Some(<<"/","E","v","e","n","t","s","/","2">>), Some(<<"e","v","t","-","9">>)),
    Raw(Some(<<"M","o","r","e"," ","I","n","f","o">>), START_LOCAL, NoLoc, Some(<<"/","e","v","e","n","t","s","/","4">>), None) }

\* Anchors of the hinted blocks of a page without structured data: the
\* tag-stripped anchor text and the href already joined to the page URL.
Card(text, href) == [text |-> text, href |-> href]

Cards ==
  { Card(<<" ","W","i","n","t","e","r"," "," ","J","a","z","z"," ","F","e","s","t","i","v","a","l">>, <<"h","t","t","p",":","/","/","h","/","e","v","e","n","t","s","/","1">>),
    Card(T_WALK, <<"h","t","t","p",":","/","/","h","/","a","b","o","u","t">>),
    Card(T_WALK, <<"h","t","t","p",":","/","/","h","/","s","h","o","w","s","/","2">>) }

\* All sequences over S of length at most n.
SeqsUpTo(S, n) == UNION { [1..m -> S] : m \in 0..n }

\* What requests.post does: it returns a response with a status code, or
\* it raises (timeout, connection error).
Status(code) == [raised |-> FALSE, code |-> code]

Raised == [raised |-> TRUE, code |-> 0]

Responses == { Status(200), Status(404), Status(429), Status(503), Raised }

---------------------------------------------------------------------------
(* State *)

VARIABLES
  pc,                \* where the run is: "row", "loop", "post", "retry",
                     \* "ret", "end", "done"
  row,               \* rows of sources.csv read so far
  kind,              \* type of the current row: "ics", "rss", "page"
  used_fallback,     \* ingest_page: the heuristic card scrape was used
  default_location,  \* default_location of the current row
  evs,               \* the entries the current source yielded, in order
  i,                 \* entries of evs the loop has consumed
  seen,              \* ingest_page: dedup keys seen
  posted,            \* the loop's counter
  data,              \* post_event's argument
  attempts,          \* requests.post calls made for data
  lastResp,          \* what the latest requests.post did
  outcome,           \* post_event's end: "ok", or "failed" (the except branch)
  sent,              \* history: <<index in evs, data>> of every post_event call
  accepted,          \* history: deliveries the sink answered with 2xx
  results,           \* history: how each post_event call ended, in order;
                     \* "failed" is one "! POST failed" line
  summary,           \* the count in the source's "done: posted N events" line
  script             \* PostSpec: the sink's scripted responses

srcVars == <<kind, used_fallback, default_location, evs>>

loopVars == <<i, seen, posted>>

postVars == <<data, attempts, lastResp, outcome>>

histVars == <<sent, results, accepted, summary>>

vars == <<pc, row, srcVars, loopVars, postVars, histVars, script>>

NoData == [event_name |-> None]

NoResp == [raised |-> FALSE, code |-> 0]

---------------------------------------------------------------------------
(* post_event (ingest.py lines 77-97) *)

\* line 86
Retryable(code) == code = 429 \/ code >= 500

\* line 94
RetryBreaks(code) == code < 400

\* r.raise_for_status() raises for 4xx and 5xx.
raise_for_status(code) == IF code >= 400 THEN "failed" ELSE "ok"

Is2xx(code) == 200 <= code /\ code < 300

\* The sink's own count of accepted deliveries.
Accept(r) == IF ~r.raised /\ Is2xx(r.code) THEN accepted + 1 ELSE accepted

\* post_event returns; o is "ok", or "failed" when the except branch printed.
PostReturn(o) ==
  /\ outcome' = o
  /\ results' = Append(results, o)
  /\ pc' = "ret"

\* Line 83: the first requests.post, and what follows when no retry is due.
PostFirst(r) ==
  /\ pc = "post"
  /\ attempts' = 1
  /\ lastResp' = r
  /\ accepted' = Accept(r)
  /\ IF r.raised THEN PostReturn("failed")
     ELSE IF Retryable(r.code) /\ Len(RETRY_BACKOFFS) > 0
          THEN pc' = "retry" /\ UNCHANGED <<outcome, results>>
          ELSE PostReturn(raise_for_status(r.code))
  /\ UNCHANGED <<row, srcVars, loopVars, data, sent, summary, script>>

\* Lines 88-94: one pass of the retry loop, after sleeping RETRY_BACKOFFS[attempts].
PostRetry(r) ==
  /\ pc = "retry"
  /\ attempts' = attempts + 1
  /\ lastResp' = r
  /\ accepted' = Accept(r)
  /\ IF r.raised THEN PostReturn("failed")
     ELSE IF RetryBreaks(r.code) \/ attempts = Len(RETRY_BACKOFFS)
          THEN PostReturn(raise_for_status(r.code))
          ELSE pc' = "retry" /\ UNCHANGED <<outcome, results>>
  /\ UNCHANGED <<row, srcVars, loopVars, data, sent, summary, script>>

---------------------------------------------------------------------------
(* The records the producers build *)

CanonicalEvent(event_name, date, day, time, host_org, location, address, link, source_id) ==
  [event_name |-> event_name, date |-> date, day |-> day, time |-> time,
   host_org |-> host_org, location |-> location, address |-> address,
   link |-> link, status |-> "active", source_id |-> source_id]

\* getattr(e, "location", None) of a calendar entry.
ics_location(e) == IF e.location.kind = "str" THEN Some(e.location.text) ELSE None

\* ingest_ics lines 220-236
ics_data(e, url, source_name, default_loc) ==
  LET name == strip(StrOr(e.name))
  IN CanonicalEvent(
       Some(name), iso_date(e.start), weekday_name(e.start), iso_time(e.start),
       source_name,
       Or(Some(default_loc), ics_location(e)),
       None,
       Or(e.url, Some(url)),
       Or(e.id, Some(<<"i","c","s",":">> \o sha1_id3(Some(url), Some(name), iso_date(e.start)))))

\* ingest_rss lines 340-356
rss_data(entry, url, source_name, default_loc) ==
  CanonicalEvent(
    entry.name, iso_date(entry.start), weekday_name(entry.start),
    iso_time(entry.start), source_name, Some(default_loc), None, entry.url,
    Some(<<"r","s","s",":">> \o sha1_id2(Some(url), Or(Or(entry.id, entry.url), entry.name))))

\* ", ".join(filter(None, parts))
RECURSIVE join_comma(_)
join_comma(parts) ==
  IF parts = <<>> THEN <<>>
  ELSE IF ~Truthy(Head(parts)) THEN join_comma(Tail(parts))
  ELSE LET rest == join_comma(Tail(parts))
       IN IF rest = <<>> THEN Head(parts)[1] ELSE Head(parts)[1] \o <<","," ">> \o rest

\* A derivation that hashes the page URL and the title only.
page_source_id_title_only(ev, url, title, parsed_date, link, fallback) ==
  Or(ev.id,
     Some((IF fallback THEN <<"c","a","r","d">> ELSE <<"j","s","o","n","l","d">>) \o <<":">>
          \o sha1_id2(Some(url), Some(title))))

\* ingest_page lines 315-319
page_source_id(ev, url, title, parsed_date, link, fallback) ==
  Or(ev.id,
     Some((IF fallback THEN <<"c","a","r","d">> ELSE <<"j","s","o","n","l","d">>) \o <<":">>
          \o sha1_id3(Some(url), Some(title), Or(Or(parsed_date, link), Some(<<>>)))))

\* ingest_page lines 292-321
page_data(ev, url, source_name, default_loc, fallback) ==
  LET title == safe_title(ev.name)
      link == ev.url
      start == ev.start
      isdict == ev.location.kind = "place"
      locname == IF isdict THEN ev.location.name ELSE None
      parsed_date == IF start.kind # "none" THEN iso_date(start) ELSE None
      address == strip(join_comma(
                   IF isdict
                   THEN <<ev.location.street, ev.location.locality, ev.location.region>>
                   ELSE <<None, None, None>>))
  IN CanonicalEvent(
       Some(title),
       parsed_date,
       IF Truthy(parsed_date) THEN weekday_name(dp_parse_date(parsed_date[1])) ELSE None,
       IF start.kind # "none" THEN iso_time(start) ELSE None,
       source_name,
       Or(locname, Some(default_loc)),
       IF address = <<>> THEN None ELSE Some(address),
       Or(link, Some(url)),
       page_source_id(ev, url, title, parsed_date, link, fallback))

\* ingest_page line 287
dedup_key(ev) == <<lower(safe_title(ev.name)), lower(StrOr(ev.url))>>

\* fallback_cards_from_html lines 173-193: the cards kept, as Event dicts.
\* No card of the model holds a date-shaped token, so startDate is None.
fallback_cards_from_html(cards) ==
  LET keep(c) == LET title == safe_title(Some(c.text))
                 IN title # <<>> /\ is_event_like(Some(title), Some(c.href))
      ev(c) == Raw(Some(safe_title(Some(c.text))), NoStart, NoLoc, Some(c.href), None)
      kept == SelectSeq(cards, keep)
  IN [n \in 1..Len(kept) |-> ev(kept[n])]

---------------------------------------------------------------------------
(* The loops of ingest_ics, ingest_rss and ingest_page *)

\* `post_event(data)` is called for entry n of evs.
CallPost(n, d) ==
  /\ data' = d
  /\ sent' = Append(sent, <<n, d>>)
  /\ attempts' = 0
  /\ lastResp' = NoResp
  /\ outcome' = "none"
  /\ pc' = "post"

\* The loop body moves on to the next entry without posting.
Continue ==
  /\ pc' = "loop"
  /\ UNCHANGED <<postVars, sent>>

\* ingest_ics lines 219-238: every entry is posted.
IcsStep ==
  /\ pc = "loop" /\ kind = "ics" /\ i < Len(evs)
  /\ i' = i + 1
  /\ CallPost(i + 1, ics_data(evs[i + 1], ICS_URL, SourceName("ics"), default_location))
  /\ UNCHANGED <<row, srcVars, seen, posted, accepted, results, summary, script>>

\* ingest_rss lines 339-360
RssStep ==
  /\ pc = "loop" /\ kind = "rss" /\ i < Len(evs)
  /\ i' = i + 1
  /\ LET d == rss_data(evs[i + 1], RSS_URL, SourceName("rss"), default_location)
     IN IF ~is_event_like(d.event_name, d.link)
        THEN Continue
        ELSE CallPost(i + 1, d)
  /\ UNCHANGED <<row, srcVars, seen, posted, accepted, results, summary, script>>

\* ingest_page lines 284-327
PageStep ==
  /\ pc = "loop" /\ kind = "page" /\ i < Len(evs)
  /\ i' = i + 1
  /\ LET ev == evs[i + 1]
         key == dedup_key(ev)
         d == page_data(ev, PAGE_URL, SourceName("page"), default_location,
                        used_fallback)
     IN IF safe_title(ev.name) # <<>> /\ key \in seen
        THEN Continue /\ seen' = seen
        ELSE /\ seen' = seen \cup {key}
             /\ IF ~Truthy(d.event_name) \/ ~is_event_like(d.event_name, d.link)
                THEN Continue
                ELSE CallPost(i + 1, d)
  /\ UNCHANGED <<row, srcVars, posted, accepted, results, summary, script>>

\* A loop that gives the source up when a delivery failed.
after_post_stop_on_failure(o, p) ==
  IF o = "failed" \/ p >= MAX_POSTS_PER_SOURCE THEN "end" ELSE "loop"

\* Where the loop goes after `post_event(data); posted += 1` (lines 238-241,
\* 327-330, 360-363): o is post_event's outcome, p the new count.
after_post(o, p) == IF p >= MAX_POSTS_PER_SOURCE THEN "end" ELSE "loop"

\* post_event has returned: count it and test the cap.
AfterPost ==
  /\ pc = "ret"
  /\ posted' = posted + 1
  /\ pc' = after_post(outcome, posted + 1)
  /\ data' = NoData /\ attempts' = 0 /\ lastResp' = NoResp /\ outcome' = "none"
  /\ UNCHANGED <<row, srcVars, i, seen, histVars, script>>

\* The for loop is exhausted.
LoopEnd ==
  /\ pc = "loop" /\ i = Len(evs)
  /\ pc' = "end"
  /\ UNCHANGED <<row, srcVars, loopVars, postVars, histVars, script>>

\* The "done: posted N events" line (242, 332, 364); the ingest function
\* returns to run_from_csv and its locals are gone.
SourceEnd ==
  /\ pc = "end"
  /\ summary' = Some(posted)
  /\ pc' = "row"
  /\ row' = row + 1
  /\ kind' = "none" /\ used_fallback' = FALSE /\ default_location' = <<>>
  /\ evs' = <<>> /\ i' = 0 /\ seen' = {} /\ posted' = 0
  /\ sent' = <<>> /\ results' = <<>>
  /\ UNCHANGED <<postVars, accepted, script>>

---------------------------------------------------------------------------
(* run_from_csv (lines 367-394) and the fetches *)

\* What each kind of source can yield.
IcsBatches == SeqsUpTo(IcsEntries, MaxCands)

RssBatches == SeqsUpTo(RssEntries, MaxCands)

StructuredBatches == SeqsUpTo(StructuredBlocks, MaxCands) \ {<<>>}

CardBatches == SeqsUpTo(Cards, MaxCands)

\* run_from_csv is about to read a row.
AtRow == pc = "row" /\ row < MaxRows

\* A source starts its loop over the entries it fetched.
StartLoop(k, fallback, dl, entries) ==
  /\ kind' = k
  /\ used_fallback' = fallback
  /\ default_location' = dl
  /\ evs' = entries
  /\ i' = 0
  /\ seen' = {}
  /\ posted' = 0
  /\ data' = NoData /\ attempts' = 0 /\ lastResp' = NoResp /\ outcome' = "none"
  /\ sent' = <<>> /\ accepted' = 0 /\ results' = <<>> /\ summary' = None
  /\ pc' = "loop"
  /\ UNCHANGED <<row, script>>

\* A row of type ics whose calendar parses (lines 197-218).
StartIcs ==
  /\ AtRow
  /\ \E dl \in DefaultLocations, entries \in IcsBatches :
       StartLoop("ics", FALSE, dl, entries)

\* A row of type rss (lines 335-338).
StartRss ==
  /\ AtRow
  /\ \E dl \in DefaultLocations, entries \in RssBatches :
       StartLoop("rss", FALSE, dl, entries)

\* A row of type page or jsonld whose page holds structured events
\* (lines 245-271).
StartPageStructured ==
  /\ AtRow
  /\ \E dl \in DefaultLocations, blocks \in StructuredBatches :
       StartLoop("page", FALSE, dl, blocks)

\* A row of type page whose page holds no structured event: the heuristic
\* card scrape (lines 274-279).
StartPageFallback ==
  /\ AtRow
  /\ \E dl \in DefaultLocations, cards \in CardBatches :
       StartLoop("page", TRUE, dl, fallback_cards_from_html(cards))

\* The fetch fails and the ingest function returns without a summary line:
\* ingest_ics lines 199-216, ingest_page lines 263-267.
FetchFail ==
  /\ AtRow
  /\ row' = row + 1
  /\ summary' = None /\ accepted' = 0
  /\ UNCHANGED <<pc, srcVars, loopVars, postVars, sent, results, script>>

\* A row without url or type, or of an unknown type (lines 377-378, 388-389).
SkipRow ==
  /\ AtRow
  /\ row' = row + 1
  /\ UNCHANGED <<pc, srcVars, loopVars, postVars, histVars, script>>

\* The CSV is exhausted: "All done."
EndRun ==
  /\ pc = "row" /\ row = MaxRows
  /\ pc' = "done"
  /\ UNCHANGED <<row, srcVars, loopVars, postVars, histVars, script>>

NoScript == <<>>

Init ==
  /\ pc = "row"
  /\ row = 0
  /\ kind = "none" /\ used_fallback = FALSE /\ default_location = <<>>
  /\ evs = <<>>
  /\ i = 0 /\ seen = {} /\ posted = 0
  /\ data = NoData /\ attempts = 0 /\ lastResp = NoResp /\ outcome = "none"
  /\ sent = <<>> /\ accepted = 0 /\ results = <<>> /\ summary = None
  /\ script = NoScript

Next ==
  \/ StartIcs
  \/ StartRss
  \/ StartPageStructured
  \/ StartPageFallback
  \/ FetchFail
  \/ SkipRow
  \/ EndRun
  \/ IcsStep
  \/ RssStep
  \/ PageStep
  \/ \E r \in Responses : PostFirst(r)
  \/ \E r \in Responses : PostRetry(r)
  \/ AfterPost
  \/ LoopEnd
  \/ SourceEnd

Spec == Init /\ [][Next]_vars

---------------------------------------------------------------------------
(* post_event alone, against a sink whose answers are fixed in advance *)

PostInit ==
  /\ pc = "post"
  /\ row = 0
  /\ kind = "rss" /\ used_fallback = FALSE /\ default_location = <<>>
  /\ evs = <<Raw(Some(T_FEST), NoStart, NoLoc, Some(<<"/","e","v","e","n","t","s","/","1">>), None)>>
  /\ i = 1 /\ seen = {} /\ posted = 0
  /\ data = rss_data(evs[1], RSS_URL, SourceName("rss"), default_location)
  /\ attempts = 0 /\ lastResp = NoResp /\ outcome = "none"
  /\ sent = <<<<1, data>>>> /\ accepted = 0 /\ results = <<>> /\ summary = None
  /\ script \in [1..ScriptLen -> Responses]

\* The sink answers request n with script[n].
ScriptedFirst == PostFirst(script[1])

ScriptedRetry == attempts < ScriptLen /\ PostRetry(script[attempts + 1])

PostNext == ScriptedFirst \/ ScriptedRetry

PostSpec == PostInit /\ [][PostNext]_vars

---------------------------------------------------------------------------
(* Properties *)

Range(f) == { f[n] : n \in DOMAIN f }

\* Positions of evs that post_event was called for, and the record of each.
SentIdx == { sent[j][1] : j \in 1..Len(sent) }

SentData(j) == sent[j][2]

SentRaw(j) == evs[sent[j][1]]

\* The record the current source builds from entry n of evs.
SourceData(n) ==
  IF kind = "ics"
  THEN ics_data(evs[n], ICS_URL, SourceName("ics"), default_location)
  ELSE IF kind = "rss"
  THEN rss_data(evs[n], RSS_URL, SourceName("rss"), default_location)
  ELSE page_data(evs[n], PAGE_URL, SourceName("page"), default_location,
                 used_fallback)

\* The response class that the retry policy is about.
Is429or5xx(r) == ~r.raised /\ (r.code = 429 \/ (500 <= r.code /\ r.code < 600))

Answered2xx(r) == ~r.raised /\ 200 <= r.code /\ r.code < 300

\* C1: in post_event a further attempt follows only a 429 or 5xx response,
\* and never more than three retries are made for one event.
C1_RetryOnlyAfter429Or5xx ==
  [][(attempts >= 1 /\ attempts' = attempts + 1)
       => (Is429or5xx(lastResp) /\ attempts' <= 1 + 3)]_vars

\* The sink answers with k responses of class 429/5xx and then a 2xx.
ScriptPattern(k) ==
  /\ \A j \in 1..k : Is429or5xx(script[j])
  /\ Answered2xx(script[k + 1])

\* C2: for every k in 0..3, against k responses of class 429/5xx followed by
\* a 2xx response, post_event makes exactly k+1 attempts and ends as a
\* success, with no failure reported.
C2_RetriesThenSuccess ==
  \A k \in 0..3 :
    ScriptPattern(k) =>
      /\ attempts <= k + 1
      /\ pc = "ret" => (attempts = k + 1 /\ outcome = "ok" /\ results = <<"ok">>)

\* 429, 429, 200: three attempts and success.
C2_Witness ==
  /\ pc = "ret"
  /\ script[1] = Status(429) /\ script[2] = Status(429) /\ script[3] = Status(200)
  /\ attempts = 3
  /\ outcome = "ok"

\* The normalized (title, link) of the canonical record built from entry n.
CanonicalKey(n) ==
  LET d == SourceData(n)
  IN <<lower(strip(StrOr(d.event_name))), lower(StrOr(d.link))>>

\* Entry n is a candidate the pipeline is to deliver: it has a title, the
\* classifier accepts it, and on a page it is the first of its key.
Eligible(n) ==
  LET d == SourceData(n)
  IN /\ strip(StrOr(d.event_name)) # <<>>
     /\ is_event_like(d.event_name, d.link)
     /\ kind = "page" => \A m \in 1..(n - 1) : CanonicalKey(m) # CanonicalKey(n)

\* C3: a source with at least MAX_POSTS_PER_SOURCE eligible candidates ends
\* with exactly that many delivered records, and post_event is never called
\* for it more often than the cap.
C3_CapCountsDelivered ==
  (pc = "end" /\ Cardinality({n \in 1..Len(evs) : Eligible(n)}) >= MAX_POSTS_PER_SOURCE)
    => (accepted = MAX_POSTS_PER_SOURCE /\ Len(sent) = MAX_POSTS_PER_SOURCE)

\* Entry n passes the source's own tests for calling post_event.
PassesGate(n) ==
  LET d == SourceData(n)
  IN IF kind = "ics" THEN TRUE
     ELSE IF kind = "rss" THEN is_event_like(d.event_name, d.link)
     ELSE /\ ~(safe_title(evs[n].name) # <<>>
               /\ \E m \in 1..(n - 1) : dedup_key(evs[m]) = dedup_key(evs[n]))
          /\ Truthy(d.event_name)
          /\ is_event_like(d.event_name, d.link)

\* What is left of the run: rows, then entries, then retries.
Rank ==
  LET perEntry == Len(RETRY_BACKOFFS) + 6
      perRow == (MaxCands + 1) * perEntry + 2
      left == (Len(evs) - i) * perEntry
      inner == IF pc = "row" THEN perRow - 1
               ELSE IF pc = "loop" THEN left + 1
               ELSE IF pc = "ret" THEN left + 2
               ELSE IF pc = "retry" THEN left + 3 + (Len(RETRY_BACKOFFS) - attempts)
               ELSE IF pc = "post" THEN left + 4 + Len(RETRY_BACKOFFS)
               ELSE 0
  IN IF pc = "done" THEN 0 ELSE 1 + (MaxRows - row) * perRow + inner

\* The run has a next step.  The loop bodies are total: they are enabled
\* when an entry is left and the source is of a known kind.
HasNextStep ==
  /\ pc = "row" => ENABLED (SkipRow \/ EndRun)
  /\ pc = "loop" => \/ i < Len(evs) /\ kind \in {"ics", "rss", "page"}
                    \/ ENABLED LoopEnd
  /\ pc = "post" => \A r \in Responses : ENABLED PostFirst(r)
  /\ pc = "retry" => \A r \in Responses : ENABLED PostRetry(r)
  /\ pc = "ret" => ENABLED AfterPost
  /\ pc = "end" => ENABLED SourceEnd
  /\ pc \in {"row", "loop", "post", "retry", "ret", "end", "done"}

C4_FailureIsContained ==
  /\ (pc = "end" /\ "failed" \in Range(results))
       => \/ posted >= MAX_POSTS_PER_SOURCE
          \/ \A n \in 1..Len(evs) : PassesGate(n) => n \in SentIdx
  /\ HasNextStep
  /\ pc = "done" => row = MaxRows

\* C4: a failed delivery never stops the run.  When a source's loop ends
\* after a failure, every entry that passes the source's tests was handed
\* to post_event unless the cap was reached; the run has a next step in
\* every state but its end, where every row has been read; and every step
\* lowers Rank, so the end is reached.
C4_RunSurvivesFailures == []C4_FailureIsContained /\ [][Rank' < Rank]_vars

\* A delivery failed and the next entry of the same source was still posted.
C4_Witness ==
  /\ pc = "end"
  /\ row = MaxRows - 1
  /\ results = <<"failed", "ok">>

\* C5: of two entries of one page whose canonical records have the same
\* normalized (title, link), the later one is never handed to delivery.
C5_OnePerCanonicalKey ==
  kind = "page" =>
    \A p \in 1..Len(evs), q \in SentIdx :
      p < q => CanonicalKey(p) # CanonicalKey(q)

\* C6: every record handed to post_event, from every producer, has a title
\* that is non-empty after trimming and that is_event_like accepts with the
\* record's link.
C6_OnlyEventLikePosted ==
  \A j \in 1..Len(sent) :
    /\ strip(StrOr(SentData(j).event_name)) # <<>>
    /\ is_event_like(SentData(j).event_name, SentData(j).link)

\* C7: in every record handed to post_event, date, day and time are all
\* absent or all present, and day is the weekday name of date.
C7_DayIsWeekdayOfDate ==
  \A j \in 1..Len(sent) :
    LET d == SentData(j)
    IN \/ d.date = None /\ d.day = None /\ d.time = None
       \/ /\ d.date # None /\ d.day # None /\ d.time # None
          /\ d.day = Some(strftime_A(parse_isodate(d.date[1])))

\* C8: the count in a source's summary line is the number of its records
\* the sink answered with 2xx.
C8_SummaryCountsAccepted == summary # None => summary[1] = accepted

\* C9: a raw location that is a plain string is the record's location, with
\* no address; a place's name is the record's location; and the default
\* location is used only for an entry that carries no location of its own.
C9_OwnLocationWins ==
  \A j \in 1..Len(sent) :
    LET loc == SentRaw(j).location
        d == SentData(j)
    IN /\ loc.kind = "str" => (d.location = Some(loc.text) /\ d.address = None)
       /\ (loc.kind = "place" /\ Truthy(loc.name)) => d.location = loc.name

NoExplicitId(j) == ~Truthy(SentRaw(j).id)

\* The parsed date of a record or, without one, its link.
DateOrLink(d) == IF Truthy(d.date) THEN d.date ELSE d.link

\* C10 as stated: two records of one page batch that both reach delivery
\* and carry no explicit id never share a source_id.
C10_DistinctSourceIds ==
  kind = "page" =>
    \A a, b \in 1..Len(sent) :
      (a # b /\ NoExplicitId(a) /\ NoExplicitId(b))
        => SentData(a).source_id # SentData(b).source_id

\* C10, amended: two such records have different source_ids when they
\* differ in title or in (parsed date, else link), and the same source_id
\* when they have the same title and the same parsed date, whatever their
\* links.
C10_SourceIdByTitleAndDateOrLink ==
  kind = "page" =>
    \A a, b \in 1..Len(sent) :
      (a # b /\ NoExplicitId(a) /\ NoExplicitId(b)) =>
        LET da == SentData(a)
            db == SentData(b)
        IN /\ (da.event_name # db.event_name \/ DateOrLink(da) # DateOrLink(db))
                => da.source_id # db.source_id
           /\ (da.event_name = db.event_name /\ Truthy(da.date) /\ da.date = db.date)
                => da.source_id = db.source_id

\* Two delivered records of one page with the same title, one dated and one
\* not, and different source_ids.
C10_Witness ==
  /\ kind = "page"
  /\ Len(sent) = 2
  /\ NoExplicitId(1) /\ NoExplicitId(2)
  /\ SentData(1).event_name = SentData(2).event_name
  /\ Truthy(SentData(1).date) /\ ~Truthy(SentData(2).date)
  /\ SentData(1).source_id # SentData(2).source_id

===========================================================================
